---- MODULE Spec2Model ----
(***************************************************************************)
(* Model of drivers/gpu/msm/adreno_iommu.c: synthesis and submission of    *)
(* the pagetable-switch and context-record command streams of a ring      *)
(* buffer.                                                                 *)
(*                                                                         *)
(* A command word is a record [kind, id, val]: a packet header carries the *)
(* opcode (or register) in id and its payload word count in val; a payload *)
(* word has kind "data" and its value in val.  64-bit quantities are split *)
(* into halves of HalfBits bits.                                           *)
(***************************************************************************)
EXTENDS Integers, Sequences, FiniteSets, TLC

\* ------------------------------------------------------------------ bounds
MaxRB == 2
NumCtx == 2
NumBufs == 2

\* --------------------------------------------------------------- constants
NULL == 0
ENOMEM == 12
ENOSPC == 28
EPROTO == 71
KGSL_CMD_FLAGS_PMODE == 1
PAGE_SIZE == 4096
SIZEOF_UINT == 4
LINK_WORDS == 15
CONTEXT_TO_MEM_IDENTIFIER == 783138543
KGSL_IOMMU_SETSTATE_NOP_OFFSET == 1024
HalfBits == 12
Half == 2 ^ HalfBits

RBs == 1 .. MaxRB
Ctxs == 1 .. NumCtx
Bufs == 1 .. NumBufs
DefaultPagetable == 0
PTs == {DefaultPagetable} \cup Ctxs
MmuTypes == {"KGSL_MMU_TYPE_NONE", "KGSL_MMU_TYPE_IOMMU"}
IssueResults == {0, -ENOSPC, -EPROTO}

\* ------------------------------------------------------------------ state
VARIABLES
    mmutype,          \* kgsl_mmu_get_mmutype(device)
    apriv,            \* ADRENO_FEATURE(adreno_dev, ADRENO_APRIV)
    perfcounter,      \* adreno_dev->perfcounter
    fault,            \* test_bit(ADRENO_DEVICE_FAULT, &adreno_dev->priv)
    num_ringbuffers,  \* ring buffers in use
    drawctxt_active,  \* rb->drawctxt_active
    allocated,        \* buffers handed out by kmalloc and not yet freed
    mem,              \* contents of the kmalloc buffers
    pc,               \* position of the call running on each ring buffer
    new_pt,           \* argument new_pt
    drawctxt,         \* argument drawctxt
    link,             \* _set_pagetable_gpu: link
    count,            \* _set_pagetable_gpu: count
    marks,            \* offsets of cmds after each sub-sequence
    result,           \* adreno_iommu_set_pt_ctx: result
    retval,           \* value returned by adreno_iommu_set_pt_ctx
    subs,             \* calls of adreno_ringbuffer_issue_internal_cmds
    hist,             \* per call: allocations, frees, generator runs, faults
    pt_desc,          \* the pagetable descriptors (struct kgsl_pagetable)
    hw,               \* per ring buffer: what the submitted commands program
    assumed           \* per ring buffer: the orderly-use assumptions held so far

\* ------------------------------------------------ external collaborators
lower_32_bits(v) == v % Half
upper_32_bits(v) == (v \div Half) % Half

\* drawctxt->base.id and drawctxt->base.proc_priv->pagetable
base_id(c) == c + 6
proc_pagetable(c) == c

kgsl_mmu_pagetable_get_ttbr0(pt) == pt_desc[pt].ttbr0
kgsl_mmu_pagetable_get_contextidr(pt) == pt_desc[pt].contextidr
\* the descriptors set up by the pagetable manager
PagetableDescriptors ==
    [pt \in PTs |-> [ttbr0 |-> (pt + 1) * Half + 64 * (pt + 3),
                     contextidr |-> pt + 32]]
cb_num == 1

setstate_gpuaddr == 3 * Half + 2048
pagetable_desc_gpuaddr(rb) == (4 + rb) * Half + 256
PT_INFO_OFFSET_ttbr0 == 16
MEMSTORE_RB_GPU_ADDR(rb) == 9 * Half + 40 * rb
MEMSTORE_ID_GPU_ADDR_GLOBAL == 9 * Half

Hdr(k, id, n) == [kind |-> k, id |-> id, val |-> n]
Data(v) == [kind |-> "data", id |-> "", val |-> v]
\* a payload word holding the offset of register reg
RegAddr(reg) == [kind |-> "data", id |-> reg, val |-> 0]

cp_packet(op, n) == Hdr("pkt", op, n)
cp_type7_packet(op, n) == Hdr("pkt", op, n)
cp_type4_packet(reg, n) == Hdr("reg", reg, n)
cp_register(reg, n) == Hdr("reg", reg, n)
cp_mem_packet(op, size, num_mem) == Hdr("pkt", op, size + num_mem)
cp_gpuaddr(addr) == << Data(lower_32_bits(addr)), Data(upper_32_bits(addr)) >>
cp_wait_for_idle == << cp_packet("CP_WAIT_FOR_IDLE", 0) >>
cp_wait_for_me == << cp_packet("CP_WAIT_FOR_ME", 0) >>
cp_invalidate_state == << cp_packet("CP_INVALIDATE_STATE", 0) >>
cp_identifier(arg) == << cp_packet("CP_NOP", 1), Data(arg) >>

\* ------------------------------------------------------------ generators
_adreno_iommu_add_idle_cmds == cp_wait_for_idle

\* faulty variant: the APRIV feature test is inverted
adreno_iommu_set_apriv_FeatureInverted(hasApriv, set) ==
    IF ~hasApriv
    THEN << >>
    ELSE cp_wait_for_idle \o cp_wait_for_me
         \o << cp_register("ADRENO_REG_CP_CNTL", 1) >>
         \o << Data(IF set # 0 THEN 1 ELSE 0) >>

\* faulty variant: the value word ignores set
adreno_iommu_set_apriv_IgnoresSet(hasApriv, set) ==
    IF hasApriv
    THEN << >>
    ELSE cp_wait_for_idle \o cp_wait_for_me
         \o << cp_register("ADRENO_REG_CP_CNTL", 1) >>
         \o << Data(1) >>

adreno_iommu_set_apriv(hasApriv, set) ==
    IF hasApriv
    THEN << >>
    ELSE cp_wait_for_idle \o cp_wait_for_me
         \o << cp_register("ADRENO_REG_CP_CNTL", 1) >>
         \o << Data(IF set # 0 THEN 1 ELSE 0) >>

_adreno_iommu_add_idle_indirect_cmds(nop_gpuaddr) ==
    cp_wait_for_me
    \o << cp_mem_packet("CP_INDIRECT_BUFFER_PFE", 2, 1) >>
    \o cp_gpuaddr(nop_gpuaddr)
    \o << Data(2) >>
    \o cp_wait_for_idle

\* faulty variant: the counter reset is not waited for
_adreno_iommu_set_pt_v2_a6xx_NoPoll(perf, ttbr0, contextidr, rb, cb) ==
    _adreno_iommu_add_idle_cmds
    \o cp_wait_for_me
    \o (IF ~perf
        THEN << cp_type4_packet("A6XX_RBBM_PERFCTR_SRAM_INIT_CMD", 1), Data(1) >>
        ELSE << >>)
    \o << cp_packet("CP_SMMU_TABLE_UPDATE", 4),
          Data(lower_32_bits(ttbr0)), Data(upper_32_bits(ttbr0)),
          Data(contextidr), Data(cb) >>
    \o << cp_mem_packet("CP_MEM_WRITE", 4, 1) >>
    \o cp_gpuaddr(pagetable_desc_gpuaddr(rb) + PT_INFO_OFFSET_ttbr0)
    \o << Data(lower_32_bits(ttbr0)), Data(upper_32_bits(ttbr0)),
          Data(contextidr) >>
    \o cp_wait_for_me
    \o _adreno_iommu_add_idle_cmds

\* faulty variant: the shadow copy stores the low half of ttbr0 twice
_adreno_iommu_set_pt_v2_a6xx_ShadowLowTwice(perf, ttbr0, contextidr, rb, cb) ==
    _adreno_iommu_add_idle_cmds
    \o cp_wait_for_me
    \o (IF ~perf
        THEN << cp_type4_packet("A6XX_RBBM_PERFCTR_SRAM_INIT_CMD", 1), Data(1) >>
        ELSE << >>)
    \o << cp_packet("CP_SMMU_TABLE_UPDATE", 4),
          Data(lower_32_bits(ttbr0)), Data(upper_32_bits(ttbr0)),
          Data(contextidr), Data(cb) >>
    \o << cp_mem_packet("CP_MEM_WRITE", 4, 1) >>
    \o cp_gpuaddr(pagetable_desc_gpuaddr(rb) + PT_INFO_OFFSET_ttbr0)
    \o << Data(lower_32_bits(ttbr0)), Data(lower_32_bits(ttbr0)),
          Data(contextidr) >>
    \o cp_wait_for_me
    \o _adreno_iommu_add_idle_cmds
    \o (IF ~perf
        THEN << cp_type7_packet("CP_WAIT_REG_MEM", 6), Data(3),
                RegAddr("A6XX_RBBM_PERFCTR_SRAM_INIT_STATUS"),
                Data(0), Data(1), Data(1), Data(0) >>
        ELSE << >>)

\* faulty variant: the performance counter test is inverted
_adreno_iommu_set_pt_v2_a6xx_PerfInverted(perf, ttbr0, contextidr, rb, cb) ==
    _adreno_iommu_add_idle_cmds
    \o cp_wait_for_me
    \o (IF perf
        THEN << cp_type4_packet("A6XX_RBBM_PERFCTR_SRAM_INIT_CMD", 1), Data(1) >>
        ELSE << >>)
    \o << cp_packet("CP_SMMU_TABLE_UPDATE", 4),
          Data(lower_32_bits(ttbr0)), Data(upper_32_bits(ttbr0)),
          Data(contextidr), Data(cb) >>
    \o << cp_mem_packet("CP_MEM_WRITE", 4, 1) >>
    \o cp_gpuaddr(pagetable_desc_gpuaddr(rb) + PT_INFO_OFFSET_ttbr0)
    \o << Data(lower_32_bits(ttbr0)), Data(upper_32_bits(ttbr0)),
          Data(contextidr) >>
    \o cp_wait_for_me
    \o _adreno_iommu_add_idle_cmds
    \o (IF perf
        THEN << cp_type7_packet("CP_WAIT_REG_MEM", 6), Data(3),
                RegAddr("A6XX_RBBM_PERFCTR_SRAM_INIT_STATUS"),
                Data(0), Data(1), Data(1), Data(0) >>
        ELSE << >>)

_adreno_iommu_set_pt_v2_a6xx(perf, ttbr0, contextidr, rb, cb) ==
    _adreno_iommu_add_idle_cmds
    \o cp_wait_for_me
    \o (IF ~perf
        THEN << cp_type4_packet("A6XX_RBBM_PERFCTR_SRAM_INIT_CMD", 1), Data(1) >>
        ELSE << >>)
    \o << cp_packet("CP_SMMU_TABLE_UPDATE", 4),
          Data(lower_32_bits(ttbr0)), Data(upper_32_bits(ttbr0)),
          Data(contextidr), Data(cb) >>
    \o << cp_mem_packet("CP_MEM_WRITE", 4, 1) >>
    \o cp_gpuaddr(pagetable_desc_gpuaddr(rb) + PT_INFO_OFFSET_ttbr0)
    \o << Data(lower_32_bits(ttbr0)), Data(upper_32_bits(ttbr0)),
          Data(contextidr) >>
    \o cp_wait_for_me
    \o _adreno_iommu_add_idle_cmds
    \o (IF ~perf
        THEN << cp_type7_packet("CP_WAIT_REG_MEM", 6), Data(3),
                RegAddr("A6XX_RBBM_PERFCTR_SRAM_INIT_STATUS"),
                Data(0), Data(1), Data(1), Data(0) >>
        ELSE << >>)

\* faulty variant: the prefetch stall is emitted after the pagetable switch
adreno_iommu_set_pt_generate_cmds_StallLate(hasApriv, perf, rb, pt) ==
    LET ttbr0 == kgsl_mmu_pagetable_get_ttbr0(pt)
        contextidr == kgsl_mmu_pagetable_get_contextidr(pt)
        s1 == adreno_iommu_set_apriv(hasApriv, 1)
        s2 == _adreno_iommu_set_pt_v2_a6xx(perf, ttbr0, contextidr, rb, cb_num)
        s3 == _adreno_iommu_add_idle_indirect_cmds(
                  setstate_gpuaddr + KGSL_IOMMU_SETSTATE_NOP_OFFSET)
        s4 == cp_invalidate_state
        s5 == adreno_iommu_set_apriv(hasApriv, 0)
        m1 == Len(s1)
        m2 == m1 + Len(s2)
        m3 == m2 + Len(s3)
        m4 == m3 + Len(s4)
        m5 == m4 + Len(s5)
    IN  [cmds |-> s1 \o s2 \o s3 \o s4 \o s5,
         marks |-> << m1, m2, m3, m4, m5 >>,
         count |-> m5]

\* The words written through cmds, with the offset of cmds from cmds_orig
\* after each of the five sub-sequences (marks); count is the value returned.
adreno_iommu_set_pt_generate_cmds(hasApriv, perf, rb, pt) ==
    LET ttbr0 == kgsl_mmu_pagetable_get_ttbr0(pt)
        contextidr == kgsl_mmu_pagetable_get_contextidr(pt)
        s1 == adreno_iommu_set_apriv(hasApriv, 1)
        s2 == _adreno_iommu_add_idle_indirect_cmds(
                  setstate_gpuaddr + KGSL_IOMMU_SETSTATE_NOP_OFFSET)
        s3 == _adreno_iommu_set_pt_v2_a6xx(perf, ttbr0, contextidr, rb, cb_num)
        s4 == cp_invalidate_state
        s5 == adreno_iommu_set_apriv(hasApriv, 0)
        m1 == Len(s1)
        m2 == m1 + Len(s2)
        m3 == m2 + Len(s3)
        m4 == m3 + Len(s4)
        m5 == m4 + Len(s5)
    IN  [cmds |-> s1 \o s2 \o s3 \o s4 \o s5,
         marks |-> << m1, m2, m3, m4, m5 >>,
         count |-> m5]

\* faulty variant: a context's record carries one more memory write
__add_curr_ctxt_cmds_ExtraWhenPresent(rb, ctx) ==
    cp_identifier(CONTEXT_TO_MEM_IDENTIFIER)
    \o << cp_mem_packet("CP_MEM_WRITE", 2, 1) >>
    \o cp_gpuaddr(MEMSTORE_RB_GPU_ADDR(rb))
    \o << Data(IF ctx # NULL THEN base_id(ctx) ELSE 0) >>
    \o << cp_mem_packet("CP_MEM_WRITE", 2, 1) >>
    \o cp_gpuaddr(MEMSTORE_ID_GPU_ADDR_GLOBAL)
    \o << Data(IF ctx # NULL THEN base_id(ctx) ELSE 0) >>
    \o (IF ctx # NULL
        THEN << cp_mem_packet("CP_MEM_WRITE", 2, 1) >>
             \o cp_gpuaddr(MEMSTORE_RB_GPU_ADDR(rb))
             \o << Data(base_id(ctx)) >>
        ELSE << >>)
    \o << cp_packet("CP_EVENT_WRITE", 1), Data(49) >>

\* faulty variant: the global location is always given 0
__add_curr_ctxt_cmds_GlobalZero(rb, ctx) ==
    cp_identifier(CONTEXT_TO_MEM_IDENTIFIER)
    \o << cp_mem_packet("CP_MEM_WRITE", 2, 1) >>
    \o cp_gpuaddr(MEMSTORE_RB_GPU_ADDR(rb))
    \o << Data(IF ctx # NULL THEN base_id(ctx) ELSE 0) >>
    \o << cp_mem_packet("CP_MEM_WRITE", 2, 1) >>
    \o cp_gpuaddr(MEMSTORE_ID_GPU_ADDR_GLOBAL)
    \o << Data(0) >>
    \o << cp_packet("CP_EVENT_WRITE", 1), Data(49) >>

__add_curr_ctxt_cmds(rb, ctx) ==
    cp_identifier(CONTEXT_TO_MEM_IDENTIFIER)
    \o << cp_mem_packet("CP_MEM_WRITE", 2, 1) >>
    \o cp_gpuaddr(MEMSTORE_RB_GPU_ADDR(rb))
    \o << Data(IF ctx # NULL THEN base_id(ctx) ELSE 0) >>
    \o << cp_mem_packet("CP_MEM_WRITE", 2, 1) >>
    \o cp_gpuaddr(MEMSTORE_ID_GPU_ADDR_GLOBAL)
    \o << Data(IF ctx # NULL THEN base_id(ctx) ELSE 0) >>
    \o << cp_packet("CP_EVENT_WRITE", 1), Data(49) >>

devVars == << mmutype, apriv, perfcounter, fault, num_ringbuffers, pt_desc >>
obsVars == << hw, assumed >>
heapVars == << allocated, mem >>
callVars == << pc, new_pt, drawctxt, link, count, marks, result, retval,
               subs, hist >>
vars == << devVars, drawctxt_active, heapVars, callVars, obsVars >>

NoHist == [nalloc |-> 0, nfree |-> 0, ngen |-> 0, misuse |-> FALSE,
           warned |-> FALSE, faultAtEntry |-> FALSE, entered |-> FALSE,
           allocFailed |-> FALSE]

\* ------------------------------------------------------------- observation
\* hw[rb] is what the commands submitted on rb leave programmed once they
\* have run in order: the payload of the last CP_SMMU_TABLE_UPDATE and the
\* last value written to the ring buffer's current_context location.  It is
\* followed while assumed[rb] holds: an MMU is attached, the ring buffer
\* started on the default pagetable without a context, no fault was flagged,
\* every allocation and submission succeeded and every request asked for the
\* pagetable of its context.
NotFollowed == [ttbr |-> << 0, 0, 0 >>, ctx |-> 0]

PagetableWords(pt) ==
    << lower_32_bits(kgsl_mmu_pagetable_get_ttbr0(pt)),
       upper_32_bits(kgsl_mmu_pagetable_get_ttbr0(pt)),
       kgsl_mmu_pagetable_get_contextidr(pt) >>

\* the assumptions are broken on the ring buffers of set S
Broken(S) ==
    /\ assumed' = [rb \in RBs |-> assumed[rb] /\ rb \notin S]
    /\ hw' = [rb \in RBs |-> IF rb \in S THEN NotFollowed ELSE hw[rb]]

\* the effect of the submitted words cmds on what rb has programmed
Programs(rb, cmds) ==
    LET upd == {i \in 1 .. Len(cmds) :
                   cmds[i] = cp_packet("CP_SMMU_TABLE_UPDATE", 4)}
        rec == {i \in 1 .. Len(cmds) - 3 :
                   /\ cmds[i] = cp_mem_packet("CP_MEM_WRITE", 2, 1)
                   /\ << cmds[i + 1], cmds[i + 2] >>
                          = cp_gpuaddr(MEMSTORE_RB_GPU_ADDR(rb))}
        last(S) == CHOOSE i \in S : \A j \in S : j <= i
    IN  [ttbr |-> IF upd = {} THEN hw[rb].ttbr
                  ELSE << cmds[last(upd) + 1].val, cmds[last(upd) + 2].val,
                          cmds[last(upd) + 3].val >>,
         ctx |-> IF rec = {} THEN hw[rb].ctx ELSE cmds[last(rec) + 3].val]

\* a submission of cmds on rb that the transport answered with r
Submitted(rb, cmds, r) ==
    IF r # 0 THEN Broken({rb})
    ELSE /\ hw' = [hw EXCEPT ![rb] =
                IF assumed[rb] THEN Programs(rb, cmds) ELSE @]
         /\ UNCHANGED assumed

Take(s, n) == SubSeq(s, 1, IF n < Len(s) THEN n ELSE Len(s))

\* the state before any call, on a device driving n ring buffers
InitOn(n) ==
    /\ mmutype \in MmuTypes
    /\ apriv \in BOOLEAN
    /\ perfcounter \in BOOLEAN
    /\ fault = FALSE
    /\ num_ringbuffers = n
    /\ drawctxt_active \in [RBs -> {NULL} \cup Ctxs]
    /\ \A rb \in RBs : rb > num_ringbuffers => drawctxt_active[rb] = NULL
    /\ allocated = {}
    /\ mem = [b \in Bufs |-> << >>]
    /\ pc = [rb \in RBs |-> "idle"]
    /\ new_pt = [rb \in RBs |-> DefaultPagetable]
    /\ drawctxt = [rb \in RBs |-> NULL]
    /\ link = [rb \in RBs |-> NULL]
    /\ count = [rb \in RBs |-> 0]
    /\ marks = [rb \in RBs |-> << >>]
    /\ result = [rb \in RBs |-> 0]
    /\ retval = [rb \in RBs |-> 0]
    /\ subs = [rb \in RBs |-> << >>]
    /\ hist = [rb \in RBs |-> NoHist]
    /\ pt_desc = PagetableDescriptors

\* one ring buffer, followed from the start where the assumptions hold
Init ==
    /\ InitOn(1)
    /\ assumed = [rb \in RBs |->
           mmutype # "KGSL_MMU_TYPE_NONE" /\ drawctxt_active[rb] = NULL]
    /\ hw = [rb \in RBs |->
           IF assumed[rb]
           THEN [ttbr |-> PagetableWords(DefaultPagetable), ctx |-> 0]
           ELSE NotFollowed]

\* two ring buffers with no context yet, whose calls interleave step by
\* step; the sequences are the longest ones (no APRIV, counters inactive)
InitConcurrent ==
    /\ InitOn(2)
    /\ mmutype # "KGSL_MMU_TYPE_NONE"
    /\ ~apriv /\ ~perfcounter
    /\ drawctxt_active = [rb \in RBs |-> NULL]
    /\ assumed = [rb \in RBs |-> FALSE]
    /\ hw = [rb \in RBs |-> NotFollowed]


\* ------------------------------------------------------------ environment
\* The caller (context switch code) invokes adreno_iommu_set_pt_ctx.
Call(rb, pt, ctx) ==
    /\ rb <= num_ringbuffers
    /\ pc[rb] = "idle"
    /\ pc' = [pc EXCEPT ![rb] = "set_pt_ctx"]
    /\ new_pt' = [new_pt EXCEPT ![rb] = pt]
    /\ drawctxt' = [drawctxt EXCEPT ![rb] = ctx]
    /\ result' = [result EXCEPT ![rb] = 0]
    /\ IF pt = (IF ctx # NULL THEN proc_pagetable(ctx) ELSE DefaultPagetable)
       THEN UNCHANGED obsVars
       ELSE Broken({rb})
    /\ UNCHANGED << devVars, drawctxt_active, heapVars, link, count, marks,
                    retval, subs, hist >>

\* The caller takes the return value; on success it records the context as
\* the ring buffer's active context.
Finish(rb) ==
    /\ pc[rb] = "done"
    /\ drawctxt_active' =
           IF retval[rb] = 0
           THEN [drawctxt_active EXCEPT ![rb] = drawctxt[rb]]
           ELSE drawctxt_active
    /\ pc' = [pc EXCEPT ![rb] = "idle"]
    /\ new_pt' = [new_pt EXCEPT ![rb] = DefaultPagetable]
    /\ drawctxt' = [drawctxt EXCEPT ![rb] = NULL]
    /\ link' = [link EXCEPT ![rb] = NULL]
    /\ count' = [count EXCEPT ![rb] = 0]
    /\ marks' = [marks EXCEPT ![rb] = << >>]
    /\ result' = [result EXCEPT ![rb] = 0]
    /\ retval' = [retval EXCEPT ![rb] = 0]
    /\ subs' = [subs EXCEPT ![rb] = << >>]
    /\ hist' = [hist EXCEPT ![rb] = NoHist]
    /\ UNCHANGED << obsVars, devVars, heapVars >>

\* Fault detection and recovery set and clear ADRENO_DEVICE_FAULT between
\* calls.
SetFault ==
    /\ \A rb \in RBs : pc[rb] = "idle"
    /\ fault' = ~fault
    /\ Broken(RBs)
    /\ UNCHANGED << mmutype, apriv, perfcounter, num_ringbuffers, pt_desc,
                    drawctxt_active, heapVars, callVars >>

\* ------------------------------------------------- adreno_iommu_set_pt_ctx
\* faulty variant: the active context's pagetable is not looked up
set_pt_ctx_entry_DefaultOnly(rb) ==
    /\ pc[rb] = "set_pt_ctx"
    /\ LET cur_pt == DefaultPagetable
       IN  /\ pc' = [pc EXCEPT ![rb] =
                  IF mmutype # "KGSL_MMU_TYPE_NONE"
                  THEN IF new_pt[rb] # cur_pt THEN "kmalloc" ELSE "check_result"
                  ELSE "set_ctxt"]
           /\ hist' = [hist EXCEPT ![rb] =
                  IF mmutype # "KGSL_MMU_TYPE_NONE" /\ new_pt[rb] # cur_pt
                  THEN [@ EXCEPT !.entered = TRUE, !.faultAtEntry = fault]
                  ELSE @]
    /\ UNCHANGED << obsVars, devVars, drawctxt_active, heapVars, new_pt, drawctxt,
                    link, count, marks, result, retval, subs >>

\* faulty variant: the pagetable is switched without comparing it
set_pt_ctx_entry_NoCompare(rb) ==
    /\ pc[rb] = "set_pt_ctx"
    /\ pc' = [pc EXCEPT ![rb] =
           IF mmutype # "KGSL_MMU_TYPE_NONE" THEN "kmalloc" ELSE "set_ctxt"]
    /\ hist' = [hist EXCEPT ![rb] =
           IF mmutype # "KGSL_MMU_TYPE_NONE"
           THEN [@ EXCEPT !.entered = TRUE, !.faultAtEntry = fault]
           ELSE @]
    /\ UNCHANGED << obsVars, devVars, drawctxt_active, heapVars, new_pt, drawctxt,
                    link, count, marks, result, retval, subs >>

\* lines 301-311: choose between the pagetable switch and the context switch
set_pt_ctx_entry(rb) ==
    /\ pc[rb] = "set_pt_ctx"
    /\ LET cur_pt == IF drawctxt_active[rb] # NULL
                     THEN proc_pagetable(drawctxt_active[rb])
                     ELSE DefaultPagetable
       IN  /\ pc' = [pc EXCEPT ![rb] =
                  IF mmutype # "KGSL_MMU_TYPE_NONE"
                  THEN IF new_pt[rb] # cur_pt THEN "kmalloc" ELSE "check_result"
                  ELSE "set_ctxt"]
           /\ hist' = [hist EXCEPT ![rb] =
                  IF mmutype # "KGSL_MMU_TYPE_NONE" /\ new_pt[rb] # cur_pt
                  THEN [@ EXCEPT !.entered = TRUE, !.faultAtEntry = fault]
                  ELSE @]
    /\ UNCHANGED << obsVars, devVars, drawctxt_active, heapVars, new_pt, drawctxt,
                    link, count, marks, result, retval, subs >>

\* faulty variant: the result of the pagetable switch is not looked at
set_pt_ctx_check_result_Ignored(rb) ==
    /\ pc[rb] = "check_result"
    /\ pc' = [pc EXCEPT ![rb] = "set_ctxt"]
    /\ UNCHANGED << obsVars, devVars, drawctxt_active, heapVars, new_pt, drawctxt,
                    link, count, marks, result, retval, subs, hist >>

\* lines 313-314
set_pt_ctx_check_result(rb) ==
    /\ pc[rb] = "check_result"
    /\ IF result[rb] # 0
       THEN /\ retval' = [retval EXCEPT ![rb] = result[rb]]
            /\ pc' = [pc EXCEPT ![rb] = "done"]
       ELSE /\ pc' = [pc EXCEPT ![rb] = "set_ctxt"]
            /\ UNCHANGED retval
    /\ UNCHANGED << obsVars, devVars, drawctxt_active, heapVars, new_pt, drawctxt,
                    link, count, marks, result, subs, hist >>

\* ------------------------------------------------------ _set_pagetable_gpu
\* faulty variant: a failed allocation is reported as success
set_pagetable_kmalloc_FailureIsSuccess(rb) ==
    /\ pc[rb] = "kmalloc"
    /\ \E b \in (Bufs \ allocated) \cup {NULL} :
          /\ link' = [link EXCEPT ![rb] = b]
          /\ IF b = NULL
             THEN /\ pc' = [pc EXCEPT ![rb] = "check_result"]
                  /\ hist' = [hist EXCEPT ![rb].allocFailed = TRUE]
                  /\ Broken({rb})
                  /\ UNCHANGED allocated
             ELSE /\ allocated' = allocated \cup {b}
                  /\ pc' = [pc EXCEPT ![rb] = "test_fault"]
                  /\ hist' = [hist EXCEPT ![rb].nalloc = @ + 1]
                  /\ UNCHANGED obsVars
    /\ UNCHANGED << devVars, drawctxt_active, mem, new_pt, drawctxt, count,
                    marks, result, retval, subs >>

\* faulty variant: every call uses the same buffer
set_pagetable_kmalloc_SharedBuffer(rb) ==
    /\ pc[rb] = "kmalloc"
    /\ link' = [link EXCEPT ![rb] = 1]
    /\ allocated' = allocated \cup {1}
    /\ pc' = [pc EXCEPT ![rb] = "test_fault"]
    /\ hist' = [hist EXCEPT ![rb].nalloc = @ + 1]
    /\ UNCHANGED << obsVars, devVars, drawctxt_active, mem, new_pt, drawctxt,
                    count, marks, result, retval, subs >>

\* lines 236-238
set_pagetable_kmalloc(rb) ==
    /\ pc[rb] = "kmalloc"
    /\ \E b \in (Bufs \ allocated) \cup {NULL} :
          /\ link' = [link EXCEPT ![rb] = b]
          /\ IF b = NULL
             THEN /\ result' = [result EXCEPT ![rb] = -ENOMEM]
                  /\ pc' = [pc EXCEPT ![rb] = "check_result"]
                  /\ hist' = [hist EXCEPT ![rb].allocFailed = TRUE]
                  /\ Broken({rb})
                  /\ UNCHANGED allocated
             ELSE /\ allocated' = allocated \cup {b}
                  /\ pc' = [pc EXCEPT ![rb] = "test_fault"]
                  /\ hist' = [hist EXCEPT ![rb].nalloc = @ + 1]
                  /\ UNCHANGED << result, obsVars >>
    /\ UNCHANGED << devVars, drawctxt_active, mem, new_pt, drawctxt, count,
                    marks, retval, subs >>

\* kfree(link): the buffer returns to the allocator
kfree(rb) ==
    /\ allocated' = allocated \ {link[rb]}
    /\ mem' = [mem EXCEPT ![link[rb]] = << >>]
    /\ hist' = [hist EXCEPT ![rb] =
           [@ EXCEPT !.nfree = @ + 1,
                     !.misuse = @ \/ link[rb] \notin allocated]]

\* faulty variant: the fault path returns without releasing the buffer
set_pagetable_test_fault_Leaks(rb) ==
    /\ pc[rb] = "test_fault"
    /\ IF fault
       THEN /\ result' = [result EXCEPT ![rb] = 0]
            /\ pc' = [pc EXCEPT ![rb] = "check_result"]
       ELSE /\ pc' = [pc EXCEPT ![rb] = "generate"]
            /\ UNCHANGED result
    /\ UNCHANGED << obsVars, devVars, drawctxt_active, heapVars, hist, new_pt,
                    drawctxt, link, count, marks, retval, subs >>

\* lines 241-244
set_pagetable_test_fault(rb) ==
    /\ pc[rb] = "test_fault"
    /\ IF fault
       THEN /\ kfree(rb)
            /\ result' = [result EXCEPT ![rb] = 0]
            /\ pc' = [pc EXCEPT ![rb] = "check_result"]
       ELSE /\ pc' = [pc EXCEPT ![rb] = "generate"]
            /\ UNCHANGED << heapVars, hist, result >>
    /\ UNCHANGED << obsVars, devVars, drawctxt_active, new_pt, drawctxt, link, count,
                    marks, retval, subs >>

\* lines 246-249
set_pagetable_generate(rb) ==
    /\ pc[rb] = "generate"
    /\ LET g == adreno_iommu_set_pt_generate_cmds(apriv, perfcounter, rb,
                                                  new_pt[rb])
       IN  /\ mem' = [mem EXCEPT ![link[rb]] = g.cmds]
           /\ count' = [count EXCEPT ![rb] = g.count]
           /\ marks' = [marks EXCEPT ![rb] = g.marks]
           /\ hist' = [hist EXCEPT ![rb] =
                  [@ EXCEPT !.ngen = @ + 1,
                            !.misuse = @ \/ link[rb] \notin allocated,
                            !.warned = @ \/ g.count > PAGE_SIZE \div SIZEOF_UINT]]
    /\ pc' = [pc EXCEPT ![rb] = "issue"]
    /\ UNCHANGED << obsVars, devVars, drawctxt_active, allocated, new_pt, drawctxt,
                    link, result, retval, subs >>

\* faulty variant: the protected-mode flag is not passed
set_pagetable_issue_NoFlags(rb) ==
    /\ pc[rb] = "issue"
    /\ \E r \in IssueResults :
          /\ subs' = [subs EXCEPT ![rb] = Append(@,
                 [kind |-> "pt", flags |-> 0,
                  buf |-> link[rb], cmds |-> Take(mem[link[rb]], count[rb]),
                  count |-> count[rb], result |-> r])]
          /\ result' = [result EXCEPT ![rb] = r]
          /\ Submitted(rb, Take(mem[link[rb]], count[rb]), r)
    /\ hist' = [hist EXCEPT ![rb].misuse = @ \/ link[rb] \notin allocated]
    /\ pc' = [pc EXCEPT ![rb] = "kfree"]
    /\ UNCHANGED << devVars, drawctxt_active, heapVars, new_pt, drawctxt,
                    link, count, marks, retval >>

\* lines 255-256: the transport takes count words of link and answers
set_pagetable_issue(rb) ==
    /\ pc[rb] = "issue"
    /\ \E r \in IssueResults :
          /\ subs' = [subs EXCEPT ![rb] = Append(@,
                 [kind |-> "pt", flags |-> KGSL_CMD_FLAGS_PMODE,
                  buf |-> link[rb], cmds |-> Take(mem[link[rb]], count[rb]),
                  count |-> count[rb], result |-> r])]
          /\ result' = [result EXCEPT ![rb] = r]
          /\ Submitted(rb, Take(mem[link[rb]], count[rb]), r)
    /\ hist' = [hist EXCEPT ![rb].misuse = @ \/ link[rb] \notin allocated]
    /\ pc' = [pc EXCEPT ![rb] = "kfree"]
    /\ UNCHANGED << devVars, drawctxt_active, heapVars, new_pt, drawctxt,
                    link, count, marks, retval >>

\* lines 258-259
set_pagetable_kfree(rb) ==
    /\ pc[rb] = "kfree"
    /\ kfree(rb)
    /\ pc' = [pc EXCEPT ![rb] = "check_result"]
    /\ UNCHANGED << obsVars, devVars, drawctxt_active, new_pt, drawctxt, link, count,
                    marks, result, retval, subs >>

\* ----------------------------------------------------------- _set_ctxt_gpu
\* faulty variant: the function records the context as active itself
set_ctxt_gpu_SetsActive(rb) ==
    /\ pc[rb] = "set_ctxt"
    /\ LET cmds == __add_curr_ctxt_cmds(rb, drawctxt[rb])
       IN  \E r \in IssueResults :
              /\ subs' = [subs EXCEPT ![rb] = Append(@,
                     [kind |-> "ctx", flags |-> 0, buf |-> NULL,
                      cmds |-> cmds, count |-> Len(cmds), result |-> r])]
              /\ retval' = [retval EXCEPT ![rb] = r]
              /\ Submitted(rb, cmds, r)
    /\ drawctxt_active' = [drawctxt_active EXCEPT ![rb] = drawctxt[rb]]
    /\ pc' = [pc EXCEPT ![rb] = "done"]
    /\ UNCHANGED << devVars, heapVars, new_pt, drawctxt,
                    link, count, marks, result, hist >>

\* faulty variant: the transport's answer is dropped and 0 returned
set_ctxt_gpu_DropsResult(rb) ==
    /\ pc[rb] = "set_ctxt"
    /\ LET cmds == __add_curr_ctxt_cmds(rb, drawctxt[rb])
       IN  \E r \in IssueResults :
              /\ subs' = [subs EXCEPT ![rb] = Append(@,
                     [kind |-> "ctx", flags |-> 0, buf |-> NULL,
                      cmds |-> cmds, count |-> Len(cmds), result |-> r])]
              /\ retval' = [retval EXCEPT ![rb] = 0]
              /\ Submitted(rb, cmds, r)
    /\ pc' = [pc EXCEPT ![rb] = "done"]
    /\ UNCHANGED << devVars, drawctxt_active, heapVars, new_pt, drawctxt,
                    link, count, marks, result, hist >>

\* lines 213-220, and the return of line 318
set_ctxt_gpu(rb) ==
    /\ pc[rb] = "set_ctxt"
    /\ LET cmds == __add_curr_ctxt_cmds(rb, drawctxt[rb])
       IN  \E r \in IssueResults :
              /\ subs' = [subs EXCEPT ![rb] = Append(@,
                     [kind |-> "ctx", flags |-> 0, buf |-> NULL,
                      cmds |-> cmds, count |-> Len(cmds), result |-> r])]
              /\ retval' = [retval EXCEPT ![rb] = r]
              /\ Submitted(rb, cmds, r)
    /\ pc' = [pc EXCEPT ![rb] = "done"]
    /\ UNCHANGED << devVars, drawctxt_active, heapVars, new_pt, drawctxt,
                    link, count, marks, result, hist >>

Next ==
    \/ \E rb \in RBs, pt \in PTs, ctx \in {NULL} \cup Ctxs : Call(rb, pt, ctx)
    \/ \E rb \in RBs : Finish(rb)
    \/ SetFault
    \/ \E rb \in RBs : set_pt_ctx_entry(rb)
    \/ \E rb \in RBs : set_pt_ctx_check_result(rb)
    \/ \E rb \in RBs : set_pagetable_kmalloc(rb)
    \/ \E rb \in RBs : set_pagetable_test_fault(rb)
    \/ \E rb \in RBs : set_pagetable_generate(rb)
    \/ \E rb \in RBs : set_pagetable_issue(rb)
    \/ \E rb \in RBs : set_pagetable_kfree(rb)
    \/ \E rb \in RBs : set_ctxt_gpu(rb)

Spec == Init /\ [][Next]_vars

\* the pagetable the context switch code asks for with context ctx
PagetableOf(ctx) ==
    IF ctx # NULL THEN proc_pagetable(ctx) ELSE DefaultPagetable

\* as Next, with every request asking for the pagetable of its context
NextConcurrent ==
    \/ \E rb \in RBs, ctx \in {NULL} \cup Ctxs :
           Call(rb, PagetableOf(ctx), ctx)
    \/ \E rb \in RBs : Finish(rb)
    \/ SetFault
    \/ \E rb \in RBs : set_pt_ctx_entry(rb)
    \/ \E rb \in RBs : set_pt_ctx_check_result(rb)
    \/ \E rb \in RBs : set_pagetable_kmalloc(rb)
    \/ \E rb \in RBs : set_pagetable_test_fault(rb)
    \/ \E rb \in RBs : set_pagetable_generate(rb)
    \/ \E rb \in RBs : set_pagetable_issue(rb)
    \/ \E rb \in RBs : set_pagetable_kfree(rb)
    \/ \E rb \in RBs : set_ctxt_gpu(rb)

SpecConcurrent == InitConcurrent /\ [][NextConcurrent]_vars


\* ---------------------------------------------------------------- helpers
PtSubs(rb) == SelectSeq(subs[rb], LAMBDA e : e.kind = "pt")
CtxSubs(rb) == SelectSeq(subs[rb], LAMBDA e : e.kind = "ctx")

\* the pagetable the ring buffer currently runs on
CurPt(rb) ==
    IF drawctxt_active[rb] # NULL
    THEN proc_pagetable(drawctxt_active[rb])
    ELSE DefaultPagetable

\* what the pagetable-switch path answered, read off its observable effects
PtPathResult(rb) ==
    IF hist[rb].allocFailed THEN -ENOMEM
    ELSE IF PtSubs(rb) # << >> THEN PtSubs(rb)[1].result
    ELSE 0

\* _set_pagetable_gpu was called and has returned
PtReturned(rb) ==
    hist[rb].entered /\ pc[rb] \in {"check_result", "set_ctxt", "done"}

\* the generator has filled the transient buffer of the call on rb
Generated(rb) == pc[rb] = "issue"
Buf(rb) == mem[link[rb]]

IdxOf(B, id) == {i \in 1 .. Len(B) : B[i].kind # "data" /\ B[i].id = id}
CntlWrites(B, v) ==
    {i \in 1 .. Len(B) - 1 :
        B[i] = cp_register("ADRENO_REG_CP_CNTL", 1) /\ B[i + 1] = Data(v)}

IsContextRecord(e) ==
    /\ e.count = Len(e.cmds)
    /\ e.cmds[1] = cp_packet("CP_NOP", 1)
    /\ Cardinality(IdxOf(e.cmds, "CP_MEM_WRITE")) = 2
    /\ e.cmds[e.count - 1] = cp_packet("CP_EVENT_WRITE", 1)
    /\ e.cmds[e.count] = Data(49)

\* ------------------------------------------------------------------ claims

\* C1 (as stated): every finished call of adreno_iommu_set_pt_ctx, whatever
\* the outcome of the pagetable-switch allocation or submission, has handed
\* a context-record sequence to the submission interface.
C1_EveryCallSubmitsContextRecord ==
    \A rb \in RBs : pc[rb] = "done" => Len(CtxSubs(rb)) >= 1

\* C1 (amended): a finished call has handed exactly one context-record
\* sequence to the submission interface when its pagetable-switch path
\* answered 0 (no MMU, pagetable unchanged, switch skipped in a fault or
\* switch submitted), whether or not the pagetable changed, and none when the
\* pagetable-switch allocation or submission failed.
C1_ContextRecordUnlessSwitchFailed ==
    \A rb \in RBs : pc[rb] = "done" =>
        IF PtPathResult(rb) # 0
        THEN CtxSubs(rb) = << >>
        ELSE /\ Len(CtxSubs(rb)) = 1
             /\ IsContextRecord(CtxSubs(rb)[1])

C1_Witness ==
    \E rb \in RBs :
        /\ pc[rb] = "done"
        /\ Len(PtSubs(rb)) = 1 /\ PtSubs(rb)[1].result = 0
        /\ Len(CtxSubs(rb)) = 1

\* C2: a pagetable-switch sequence is allocated, generated or submitted only
\* when an MMU is attached and new_pt differs from the ring buffer's current
\* pagetable; a call with new_pt equal to the current pagetable allocates no
\* buffer, generates and submits no pagetable-switch word and submits exactly
\* one full context-record sequence.
C2_SwitchOnlyOnChange ==
    \A rb \in RBs :
        /\ (\/ PtSubs(rb) # << >>
            \/ hist[rb].ngen > 0
            \/ hist[rb].nalloc > 0
            \/ hist[rb].allocFailed
            \/ pc[rb] \in {"kmalloc", "test_fault", "generate", "issue", "kfree"})
           => (mmutype # "KGSL_MMU_TYPE_NONE" /\ new_pt[rb] # CurPt(rb))
        /\ (pc[rb] = "done" /\ new_pt[rb] = CurPt(rb))
           => /\ PtSubs(rb) = << >>
              /\ hist[rb].ngen = 0
              /\ hist[rb].nalloc = 0 /\ ~hist[rb].allocFailed
              /\ Len(CtxSubs(rb)) = 1
              /\ IsContextRecord(CtxSubs(rb)[1])

C2_Witness ==
    \E rb \in RBs :
        /\ pc[rb] = "done"
        /\ mmutype # "KGSL_MMU_TYPE_NONE"
        /\ drawctxt_active[rb] # NULL
        /\ new_pt[rb] = CurPt(rb)
        /\ Len(subs[rb]) = 1

\* C3: in the generated sequence the privilege-raise writes (CP_CNTL := 1)
\* and the privilege-lower writes (CP_CNTL := 0) are equally many, none with
\* APRIV and one each without; the raise lies wholly before the first word of
\* the pagetable-switch sub-sequence and before CP_SMMU_TABLE_UPDATE, the
\* lower after its last word; each raise has a later lower and each lower an
\* earlier raise.
C3_PrivilegeBrackets ==
    \A rb \in RBs : Generated(rb) =>
        LET B == Buf(rb)
            raise == CntlWrites(B, 1)
            lower == CntlWrites(B, 0)
            first == marks[rb][2] + 1
            last == marks[rb][3]
        IN  /\ Cardinality(raise) = Cardinality(lower)
            /\ Cardinality(raise) = IF apriv THEN 0 ELSE 1
            /\ \E u \in IdxOf(B, "CP_SMMU_TABLE_UPDATE") : first <= u /\ u <= last
            /\ \A i \in raise :
                  /\ i + 1 < first
                  /\ \A u \in IdxOf(B, "CP_SMMU_TABLE_UPDATE") : i + 1 < u
                  /\ \E j \in lower : j > i + 1
            /\ \A j \in lower :
                  /\ j > last
                  /\ \E i \in raise : i + 1 < j

C3_Witness ==
    \E rb \in RBs :
        /\ Generated(rb)
        /\ ~apriv
        /\ CntlWrites(Buf(rb), 1) # {}
        /\ CntlWrites(Buf(rb), 0) # {}


\* C4 (as stated): when ADRENO_DEVICE_FAULT is set as _set_pagetable_gpu is
\* entered, the generator is never run, nothing is submitted for the
\* pagetable switch, and the function returns 0.
C4_FaultSkipAlwaysSucceeds ==
    \A rb \in RBs : (hist[rb].entered /\ hist[rb].faultAtEntry) =>
        /\ hist[rb].ngen = 0
        /\ PtSubs(rb) = << >>
        /\ PtReturned(rb) => result[rb] = 0

\* C5: the calls inside _set_pagetable_gpu hold exactly the outstanding
\* transient buffers, so none is outstanding once the function has returned;
\* by then every buffer allocated was freed exactly once; and no buffer is
\* written by the generator, handed to the submission interface or freed
\* again after it was freed.
InSetPagetable(rb) == pc[rb] \in {"test_fault", "generate", "issue", "kfree"}

C5_TransientBufferReleased ==
    /\ allocated = {link[rb] : rb \in {r \in RBs : InSetPagetable(r)}}
    /\ \A rb \in RBs :
          /\ ~hist[rb].misuse
          /\ hist[rb].nalloc <= 1
          /\ InSetPagetable(rb) => (hist[rb].nalloc = 1 /\ hist[rb].nfree = 0)
          /\ PtReturned(rb) => hist[rb].nfree = hist[rb].nalloc

C5_Witness ==
    \E rb \in RBs :
        /\ PtReturned(rb)
        /\ hist[rb].nalloc = 1 /\ hist[rb].nfree = 1
        /\ hist[rb].faultAtEntry
        /\ allocated = {}

\* C6: after a failed allocation _set_pagetable_gpu has returned -ENOMEM
\* with the generator not run and nothing submitted, and
\* adreno_iommu_set_pt_ctx returns -ENOMEM with no submission of either kind.
C6_AllocationFailure ==
    \A rb \in RBs : hist[rb].allocFailed =>
        /\ hist[rb].ngen = 0 /\ hist[rb].nalloc = 0
        /\ subs[rb] = << >>
        /\ pc[rb] \in {"check_result", "done"}
        /\ result[rb] = -ENOMEM
        /\ pc[rb] = "done" => retval[rb] = -ENOMEM

C6_Witness ==
    \E rb \in RBs :
        /\ pc[rb] = "done"
        /\ hist[rb].allocFailed
        /\ retval[rb] = -ENOMEM

\* C7: the word count returned by the generator is the number of words it
\* wrote, never exceeds the capacity of the transient buffer (so the overflow
\* warning never fires), and never exceeds the sum of the sub-sequence word
\* counts without APRIV and with counters inactive, which it equals in that
\* configuration.
Capacity == PAGE_SIZE \div SIZEOF_UINT

WorstCaseWords ==
    Len(adreno_iommu_set_apriv(FALSE, 1))
    + Len(_adreno_iommu_add_idle_indirect_cmds(0))
    + Len(_adreno_iommu_set_pt_v2_a6xx(FALSE, 0, 0, 1, 0))
    + Len(cp_invalidate_state)
    + Len(adreno_iommu_set_apriv(FALSE, 0))

C7_CountWithinCapacity ==
    \A rb \in RBs :
        /\ ~hist[rb].warned
        /\ Generated(rb) =>
              /\ count[rb] = Len(Buf(rb))
              /\ count[rb] <= Capacity
              /\ count[rb] <= WorstCaseWords
              /\ (~apriv /\ ~perfcounter) => count[rb] = WorstCaseWords

C7_Witness ==
    \E rb \in RBs :
        /\ Generated(rb)
        /\ ~apriv /\ ~perfcounter
        /\ count[rb] = WorstCaseWords
        /\ count[rb] > 0

\* C8: in every context-record sequence the value written to the ring
\* buffer's current_context location and the value written to the global
\* current_context location are equal: 0 without a context, the context's id
\* otherwise.
C8_BothLocationsSameId ==
    \A rb \in RBs : \A k \in 1 .. Len(subs[rb]) :
        subs[rb][k].kind = "ctx" =>
            LET c == subs[rb][k].cmds
                w == IdxOf(c, "CP_MEM_WRITE")
                want == Data(IF drawctxt[rb] = NULL THEN 0
                             ELSE base_id(drawctxt[rb]))
            IN  \E i, j \in w :
                   /\ i < j
                   /\ w = {i, j}
                   /\ << c[i + 1], c[i + 2] >> = cp_gpuaddr(MEMSTORE_RB_GPU_ADDR(rb))
                   /\ << c[j + 1], c[j + 2] >> = cp_gpuaddr(MEMSTORE_ID_GPU_ADDR_GLOBAL)
                   /\ c[i + 3] = c[j + 3]
                   /\ c[i + 3] = want

C8_Witness ==
    \E rb \in RBs :
        /\ CtxSubs(rb) # << >>
        /\ drawctxt[rb] # NULL
        /\ CtxSubs(rb)[1].cmds[6] = Data(base_id(drawctxt[rb]))

\* C9: within one call each of the two submissions is attempted at most
\* once; _set_pagetable_gpu answers what its path produced; the call returns
\* the pagetable-switch answer when that is non-zero and the answer of the
\* context-record submission otherwise.
C9_ResultsVerbatim ==
    \A rb \in RBs :
        /\ Len(PtSubs(rb)) <= 1
        /\ Len(CtxSubs(rb)) <= 1
        /\ PtReturned(rb) => result[rb] = PtPathResult(rb)
        /\ pc[rb] = "done" =>
              IF PtPathResult(rb) # 0
              THEN retval[rb] = PtPathResult(rb)
              ELSE /\ Len(CtxSubs(rb)) = 1
                   /\ retval[rb] = CtxSubs(rb)[1].result

C9_Witness ==
    \E rb \in RBs :
        /\ pc[rb] = "done"
        /\ Len(PtSubs(rb)) = 1 /\ PtSubs(rb)[1].result = 0
        /\ Len(CtxSubs(rb)) = 1 /\ CtxSubs(rb)[1].result = -EPROTO
        /\ retval[rb] = -EPROTO

\* C10: the generated sequence is, in this order, the privilege raise, the
\* prefetch stall (wait-for-me, CP_INDIRECT_BUFFER_PFE at the no-op address
\* with length 2, wait-for-idle), the pagetable switch, the invalidate-state
\* command and the privilege lower; the indirect buffer precedes
\* CP_SMMU_TABLE_UPDATE, the invalidate-state command follows every word of
\* the switch, and the count returned is the sum of the five counts.
Seg(B, m, k) == SubSeq(B, (IF k = 1 THEN 0 ELSE m[k - 1]) + 1, m[k])

C10_FixedOrder ==
    \A rb \in RBs : Generated(rb) =>
        LET B == Buf(rb)
            m == marks[rb]
            nop == setstate_gpuaddr + KGSL_IOMMU_SETSTATE_NOP_OFFSET
            priv(v) == IF apriv THEN << >>
                       ELSE << cp_packet("CP_WAIT_FOR_IDLE", 0),
                               cp_packet("CP_WAIT_FOR_ME", 0),
                               cp_register("ADRENO_REG_CP_CNTL", 1), Data(v) >>
            ib == IdxOf(B, "CP_INDIRECT_BUFFER_PFE")
            upd == IdxOf(B, "CP_SMMU_TABLE_UPDATE")
            inv == IdxOf(B, "CP_INVALIDATE_STATE")
        IN  /\ Len(m) = 5
            /\ m[1] <= m[2] /\ m[2] < m[3] /\ m[3] < m[4] /\ m[4] <= m[5]
            /\ count[rb] = m[5] /\ Len(B) = m[5]
            /\ count[rb] = Len(Seg(B, m, 1)) + Len(Seg(B, m, 2))
                           + Len(Seg(B, m, 3)) + Len(Seg(B, m, 4))
                           + Len(Seg(B, m, 5))
            /\ Seg(B, m, 1) = priv(1)
            /\ Seg(B, m, 2) = << cp_packet("CP_WAIT_FOR_ME", 0),
                                 cp_packet("CP_INDIRECT_BUFFER_PFE", 3),
                                 Data(nop % Half), Data(nop \div Half),
                                 Data(2),
                                 cp_packet("CP_WAIT_FOR_IDLE", 0) >>
            /\ Seg(B, m, 4) = << cp_packet("CP_INVALIDATE_STATE", 0) >>
            /\ Seg(B, m, 5) = priv(0)
            /\ Cardinality(ib) = 1 /\ Cardinality(upd) = 1
            /\ Cardinality(inv) = 1
            /\ \A i \in ib, u \in upd, v \in inv :
                  /\ i < u /\ u < v
                  /\ m[2] < u /\ u <= m[3]
                  /\ v = m[3] + 1
            /\ B[m[3] - (IF perfcounter THEN 0 ELSE 7)]
                   = cp_packet("CP_WAIT_FOR_IDLE", 0)
            /\ B[m[3] - (IF perfcounter THEN 1 ELSE 8)]
                   = cp_packet("CP_WAIT_FOR_ME", 0)

C10_Witness ==
    \E rb \in RBs :
        /\ Generated(rb)
        /\ new_pt[rb] # DefaultPagetable
        /\ IdxOf(Buf(rb), "CP_INDIRECT_BUFFER_PFE") # {}
        /\ IdxOf(Buf(rb), "CP_SMMU_TABLE_UPDATE") # {}


\* C11: calls running on different ring buffers never hold the same
\* transient buffer; the buffer of a call holds, and each of its submissions
\* carries, exactly the words that call generates from its own ring buffer
\* and arguments, whatever the other call does in between.
C11_NoSharedCommandBuffer ==
    /\ \A r1, r2 \in RBs :
          (r1 # r2 /\ InSetPagetable(r1) /\ InSetPagetable(r2))
              => link[r1] # link[r2]
    /\ \A rb \in RBs :
          LET own == adreno_iommu_set_pt_generate_cmds(
                         apriv, perfcounter, rb, new_pt[rb])
          IN  /\ pc[rb] \in {"issue", "kfree"} => mem[link[rb]] = own.cmds
              /\ \A k \in 1 .. Len(subs[rb]) :
                    IF subs[rb][k].kind = "pt"
                    THEN /\ subs[rb][k].cmds = own.cmds
                         /\ subs[rb][k].count = own.count
                    ELSE subs[rb][k].cmds
                             = __add_curr_ctxt_cmds(rb, drawctxt[rb])

C11_Witness ==
    \E r1, r2 \in RBs :
        /\ r1 # r2
        /\ pc[r1] = "kfree" /\ pc[r2] = "issue"
        /\ new_pt[r1] # new_pt[r2]
        /\ link[r1] # link[r2]
        /\ Len(PtSubs(r1)) = 1


\* C12: within a call the pagetable-switch sequence is a submission of its
\* own, made from the transient buffer before the context-record submission;
\* the context record is submitted last, from the stack buffer, only once the
\* pagetable-switch path has returned 0 and released its buffer; neither
\* submission carries the other's commands.
C12_SwitchThenContextRecord ==
    \A rb \in RBs :
        LET S == subs[rb]
        IN  /\ Len(S) <= 2
            /\ \A k \in 1 .. Len(S) :
                  IF S[k].kind = "ctx"
                  THEN /\ k = Len(S)
                       /\ \A j \in 1 .. k - 1 :
                             S[j].kind = "pt" /\ S[j].result = 0
                       /\ result[rb] = 0 /\ PtPathResult(rb) = 0
                       /\ hist[rb].nfree = hist[rb].nalloc
                       /\ pc[rb] = "done"
                       /\ S[k].buf = NULL
                       /\ IdxOf(S[k].cmds, "CP_SMMU_TABLE_UPDATE") = {}
                  ELSE /\ k = 1
                       /\ S[k].buf # NULL
                       /\ IdxOf(S[k].cmds, "CP_SMMU_TABLE_UPDATE") # {}
                       /\ IdxOf(S[k].cmds, "CP_EVENT_WRITE") = {}
                       /\ IdxOf(S[k].cmds, "CP_NOP") = {}

C12_Witness ==
    \E rb \in RBs :
        /\ Len(subs[rb]) = 2
        /\ subs[rb][1].kind = "pt" /\ subs[rb][2].kind = "ctx"
        /\ hist[rb].nfree = 1

\* C13: in the pagetable-switch sub-sequence the counter reset
\* (PERFCTR_SRAM_INIT_CMD := 1) and the CP_WAIT_REG_MEM poll of
\* PERFCTR_SRAM_INIT_STATUS appear once each when performance counters are
\* inactive and not at all when they are active; the reset comes right after
\* the leading idle-wait and wait-for-me and before CP_SMMU_TABLE_UPDATE, the
\* poll is the last command, after the trailing wait-for-me and idle-wait.
PerfResets(B) ==
    {i \in 1 .. Len(B) - 1 :
        /\ B[i] = cp_type4_packet("A6XX_RBBM_PERFCTR_SRAM_INIT_CMD", 1)
        /\ B[i + 1] = Data(1)}
PerfPolls(B) ==
    {i \in 1 .. Len(B) - 6 :
        /\ B[i] = cp_type7_packet("CP_WAIT_REG_MEM", 6)
        /\ B[i + 2] = RegAddr("A6XX_RBBM_PERFCTR_SRAM_INIT_STATUS")}

C13_PerfResetAndPoll ==
    \A rb \in RBs : Generated(rb) =>
        LET B == Buf(rb)
            first == marks[rb][2] + 1
            last == marks[rb][3]
            upd == IdxOf(B, "CP_SMMU_TABLE_UPDATE")
        IN  /\ Cardinality(PerfResets(B)) = IF perfcounter THEN 0 ELSE 1
            /\ Cardinality(PerfPolls(B)) = IF perfcounter THEN 0 ELSE 1
            /\ Cardinality(IdxOf(B, "CP_WAIT_REG_MEM"))
                   = Cardinality(PerfPolls(B))
            /\ B[first] = cp_packet("CP_WAIT_FOR_IDLE", 0)
            /\ B[first + 1] = cp_packet("CP_WAIT_FOR_ME", 0)
            /\ \A r \in PerfResets(B) :
                  /\ r = first + 2
                  /\ \A u \in upd : r + 1 < u
            /\ \A p \in PerfPolls(B) :
                  /\ p + 6 = last
                  /\ B[p - 2] = cp_packet("CP_WAIT_FOR_ME", 0)
                  /\ B[p - 1] = cp_packet("CP_WAIT_FOR_IDLE", 0)
                  /\ \A u \in upd : u < p

C13_Witness ==
    \E rb \in RBs :
        /\ Generated(rb)
        /\ ~perfcounter
        /\ PerfResets(Buf(rb)) # {}
        /\ PerfPolls(Buf(rb)) # {}

\* C14: with APRIV the raise and the lower written by adreno_iommu_set_apriv
\* are both empty and their counts 0; without it each is a wait-for-idle, a
\* wait-for-me and one CP_CNTL register write, with value word 1 for the
\* raise and 0 for the lower, and the two counts are equal.
C14_SetApriv ==
    \A rb \in RBs : Generated(rb) =>
        LET m == marks[rb]
            up == Seg(Buf(rb), m, 1)
            down == Seg(Buf(rb), m, 5)
            body == << cp_packet("CP_WAIT_FOR_IDLE", 0),
                       cp_packet("CP_WAIT_FOR_ME", 0),
                       cp_register("ADRENO_REG_CP_CNTL", 1) >>
        IN  /\ Len(up) = m[1] /\ Len(down) = m[5] - m[4]
            /\ Len(up) = Len(down)
            /\ IF apriv
               THEN m[1] = 0 /\ m[5] = m[4]
               ELSE /\ up = body \o << Data(1) >>
                    /\ down = body \o << Data(0) >>

C14_Witness ==
    \E rb \in RBs :
        /\ Generated(rb)
        /\ apriv
        /\ marks[rb][1] = 0
        /\ count[rb] > 0

\* C15: every pagetable-switch submission carries KGSL_CMD_FLAGS_PMODE, the
\* buffer the generator filled and the count the generator returned; every
\* context-record submission carries no flags and the count
\* __add_curr_ctxt_cmds returned.
C15_SubmissionArguments ==
    \A rb \in RBs : \A k \in 1 .. Len(subs[rb]) :
        LET e == subs[rb][k]
        IN  IF e.kind = "pt"
            THEN /\ e.flags = KGSL_CMD_FLAGS_PMODE
                 /\ e.buf = link[rb]
                 /\ e.count = count[rb] /\ e.count = marks[rb][5]
                 /\ hist[rb].ngen = 1
                 /\ pc[rb] = "kfree" => e.cmds = Take(mem[link[rb]], e.count)
            ELSE /\ e.flags = 0
                 /\ e.count = Len(__add_curr_ctxt_cmds(rb, drawctxt[rb]))
                 /\ e.count = Len(e.cmds)

C15_Witness ==
    \E rb \in RBs :
        /\ pc[rb] = "kfree"
        /\ Len(PtSubs(rb)) = 1
        /\ PtSubs(rb)[1].flags = KGSL_CMD_FLAGS_PMODE
        /\ PtSubs(rb)[1].count = count[rb]

\* C16: in the pagetable-switch sub-sequence the three values of the
\* CP_MEM_WRITE to the ring buffer's pagetable-info location are the low
\* half of ttbr0, its high half and contextidr, the same as the first three
\* payload words of CP_SMMU_TABLE_UPDATE; the write follows the update and is
\* followed by a wait-for-me and then an idle-wait.
C16_ShadowMatchesUpdate ==
    \A rb \in RBs : Generated(rb) =>
        LET B == Buf(rb)
            upd == IdxOf(B, "CP_SMMU_TABLE_UPDATE")
            wr == IdxOf(B, "CP_MEM_WRITE")
            want == PagetableWords(new_pt[rb])
        IN  /\ Cardinality(upd) = 1 /\ Cardinality(wr) = 1
            /\ \A u \in upd, w \in wr :
                  /\ u < w /\ w = u + 5
                  /\ B[w] = cp_mem_packet("CP_MEM_WRITE", 4, 1)
                  /\ << B[w + 1], B[w + 2] >>
                         = cp_gpuaddr(pagetable_desc_gpuaddr(rb)
                                      + PT_INFO_OFFSET_ttbr0)
                  /\ << B[w + 3], B[w + 4], B[w + 5] >>
                         = << B[u + 1], B[u + 2], B[u + 3] >>
                  /\ << B[u + 1], B[u + 2], B[u + 3] >>
                         = << Data(want[1]), Data(want[2]), Data(want[3]) >>
                  /\ B[w + 6] = cp_packet("CP_WAIT_FOR_ME", 0)
                  /\ B[w + 7] = cp_packet("CP_WAIT_FOR_IDLE", 0)

C16_Witness ==
    \E rb \in RBs :
        /\ Generated(rb)
        /\ \E w \in IdxOf(Buf(rb), "CP_MEM_WRITE") :
              /\ Buf(rb)[w + 3].val # Buf(rb)[w + 4].val
              /\ Buf(rb)[w + 4].val # 0

\* C17: while the assumptions hold on a ring buffer (MMU attached, start on
\* the default pagetable without a context, no fault, every allocation and
\* submission successful, every request for the pagetable of its context,
\* the caller recording the context after each success), then between calls
\* the last CP_SMMU_TABLE_UPDATE submitted (or the default pagetable if none)
\* programs the pagetable of the active context, and the last context id
\* recorded is the active context's id, 0 without one.
C17_HardwareFollowsActiveContext ==
    \A rb \in RBs : (assumed[rb] /\ pc[rb] = "idle") =>
        /\ hw[rb].ttbr = PagetableWords(CurPt(rb))
        /\ hw[rb].ctx = IF drawctxt_active[rb] = NULL THEN 0
                        ELSE base_id(drawctxt_active[rb])

C17_Witness ==
    \E rb \in RBs :
        /\ assumed[rb] /\ pc[rb] = "idle"
        /\ drawctxt_active[rb] # NULL
        /\ hw[rb].ttbr = PagetableWords(proc_pagetable(drawctxt_active[rb]))
        /\ hw[rb].ctx = base_id(drawctxt_active[rb])

\* C18: no step of adreno_iommu_set_pt_ctx, _set_pagetable_gpu or
\* _set_ctxt_gpu changes the ring buffers' active contexts, the pagetable
\* descriptors, the fault flag, the feature flags or the MMU type.
FileStep(rb) == pc[rb] \notin {"idle", "done"} /\ pc'[rb] # pc[rb]

C18_ReadOnlyInputs ==
    [][(\E rb \in RBs : FileStep(rb)) =>
           UNCHANGED << drawctxt_active, pt_desc, fault, apriv, perfcounter,
                        mmutype >>]_vars

C18_Witness ==
    \E rb \in RBs :
        /\ pc[rb] = "done"
        /\ retval[rb] = 0
        /\ Len(subs[rb]) = 2
        /\ drawctxt[rb] # drawctxt_active[rb]
        /\ pt_desc = PagetableDescriptors

\* C19: the context record handed over by _set_ctxt_gpu never has more words
\* than the 15 of link[], and __add_curr_ctxt_cmds writes the same number of
\* words with and without a context.
C19_ContextRecordFitsLink ==
    \A rb \in RBs : \A k \in 1 .. Len(subs[rb]) :
        subs[rb][k].kind = "ctx" =>
            /\ subs[rb][k].count <= LINK_WORDS
            /\ Len(subs[rb][k].cmds) <= LINK_WORDS
            /\ \A c \in {NULL} \cup Ctxs :
                  Len(__add_curr_ctxt_cmds(rb, c)) = subs[rb][k].count

C19_Witness ==
    \E rb \in RBs :
        /\ CtxSubs(rb) # << >>
        /\ drawctxt[rb] = NULL
        /\ CtxSubs(rb)[1].count = 12

====
